---- MODULE Spec2Model ----
(***************************************************************************)
(* Model of robopal's control loop (robopal/envs/base.py, MujocoEnv) and   *)
(* of the closed-loop inverse kinematics of robopal/commons/pin_utils.py   *)
(* (PinSolver.ik).                                                         *)
(*                                                                         *)
(* Times are exact rationals [n, d] (seconds, d > 0), so that              *)
(* control_timestep = 1.0 / control_freq is computed, not assumed.         *)
(* The physics engine (MuJoCo) is external: its data is the record         *)
(* mj_data = [qpos, qvel, ctrl, time, fwd] and mj_step is a deterministic  *)
(* integrator on small integers.                                           *)
(***************************************************************************)
EXTENDS Integers, Sequences, FiniteSets, TLC

VARIABLES env, control_freq, opt_timestep, cur_time, timestep,
          model_timestep, control_timestep, mj_data,
          was_reset, executed, last, reset_snap,
          ik_pc, ik_target, ik_qinit, ik_q, ik_i, ik_updates, ik_passes, ik_ret,
          ik_exit,
          s_ready, s_shares, s_data, s_last, s_held,
          p_op, p_pc, p_k, p_data, p_cur_time, p_calls, p_written, p_forwarded,
          p_advanced, p_mark,
          e_mode, e_last, e_timestep, e_k, e_truncated, e_terminated

\* env            "none" before __init__, "ok" once it returned, "error" if it raised
\* opt_timestep   mj_model.opt.timestep
\* mj_data        the physics state; time counts micro-steps since the last clear
\* was_reset      history: reset() has been called (the spec's Running state)
\* executed       history: calls of mj_step since _initialize_time
\* last           history: what the most recent call did
\* reset_snap     history: the data before a reset that directly follows a reset
\* ik_*           the locals of a call of PinSolver.ik, its position and its result
envVars == <<env, control_freq, opt_timestep, cur_time, timestep,
             model_timestep, control_timestep, mj_data,
             was_reset, executed, last, reset_snap>>

\* ik_exit        history: the break that ended the loop, "tol" or "cap"
ikVars == <<ik_pc, ik_target, ik_qinit, ik_q, ik_i, ik_updates, ik_passes, ik_ret,
            ik_exit>>

\* s_ready        PinSolver.__init__ has run
\* s_shares       the numpy arrays the bindings hand out are views of self.data
\* s_data         self.data, the solver's workspace
\* s_last         history: the most recent solver call and what it returned
\* s_held         a result of an earlier call that the caller still holds
solverVars == <<s_ready, s_shares, s_data, s_last, s_held>>

\* p_op, p_pc     the call in progress (__init__ or reset) and its next statement
\* p_k            the index j of the loop of _set_init_pose
\* p_data         the physics state, p_cur_time the clock's cur_time
\* p_calls        history: calls of step and reset made so far
\* p_written, p_forwarded, p_advanced
\*                history: joints written, mj_forward run, mj_step calls in this call
\* p_mark         history: physics time and cur_time at the first joint write
poseVars == <<p_op, p_pc, p_k, p_data, p_cur_time, p_calls, p_written, p_forwarded,
              p_advanced, p_mark>>

\* e_mode         "none" before PickAndPlaceEnv.__init__, then who calls the
\*                environment: "demo" for the __main__ loop, "free" for any caller
\* e_last         history: the most recent call
\* e_timestep     PickAndPlaceEnv._timestep
\* e_k            history: step calls since the most recent reset or construction
\* e_truncated, e_terminated
\*                what the most recent step call returned
episodeVars == <<e_mode, e_last, e_timestep, e_k, e_truncated, e_terminated>>

restVars == <<solverVars, poseVars, episodeVars>>

vars == <<envVars, ikVars, restVars>>

(* ------------------------------ bounds -------------------------------- *)

\* physics micro-steps explored per environment (the code's counters are unbounded)
MaxCalls == 4

\* joint positions of the abstract integrator range over -MaxPos..MaxPos
MaxPos == 2

\* joint velocities of the abstract integrator range over -MaxVel..MaxVel
MaxVel == 2

\* joint configurations of the solver's chain range over 0..IkMaxQ
IkMaxQ == 2

\* step calls a free caller makes beyond max_episode_steps without a reset
EpisodeOverrun == 2

(* ----------------------------- rationals ------------------------------ *)

Rat(n, d) == [n |-> n, d |-> d]

RatZero == Rat(0, 1)

RatLeq(a, b) == a.n * b.d <= b.n * a.d

RatLess(a, b) == a.n * b.d < b.n * a.d

RatEq(a, b) == a.n * b.d = b.n * a.d

\* 1.0 / f for an integer f /= 0, denominator kept positive
RatInv(f) == IF f > 0 THEN Rat(1, f) ELSE Rat(-1, -f)

(* --------------------------- the robot -------------------------------- *)

\* joints of the physics model: the arm's joints and one more (a finger)
Joints == {1, 2, 3}

\* robot.arm[0].joint_index
joint_index == <<1, 2>>

\* robot.arm[0].init_pose, one entry per entry of joint_index
init_pose == <<1, -1>>

\* the physics model's default configuration (qpos0)
qpos0 == [j \in Joints |-> 0]

ArmJoints == {joint_index[k] : k \in 1..Len(joint_index)}

Clamp(x, m) == IF x > m THEN m ELSE IF x < -m THEN -m ELSE x

(* ------------------------ the physics engine -------------------------- *)

\* MjData as the robot hands it over: default pose, at rest, nothing derived
FreshData ==
    [qpos |-> qpos0, qvel |-> [j \in Joints |-> 0], ctrl |-> [j \in Joints |-> 0],
     time |-> 0, fwd |-> FALSE]

\* a reset of the data that forgets to clear anything
mj_resetData_none(d) == d

\* mujoco.mj_resetData: default pose, zero velocity, zero controls, time 0
mj_resetData(d) ==
    [d EXCEPT !.qpos = qpos0, !.qvel = [j \in Joints |-> 0],
              !.ctrl = [j \in Joints |-> 0], !.time = 0, !.fwd = FALSE]

\* mujoco.mj_forward: the derived quantities become consistent, no time passes
mj_forward(d) == [d EXCEPT !.fwd = TRUE]

\* mujoco.mj_step: one micro-step of the integrator
mj_step(d) ==
    LET v == [j \in Joints |-> Clamp(d.qvel[j] + d.ctrl[j], MaxVel)]
    IN  [d EXCEPT !.qvel = v,
                  !.qpos = [j \in Joints |-> Clamp(d.qpos[j] + v[j], MaxPos)],
                  !.time = d.time + 1,
                  !.fwd = TRUE]

\* MujocoEnv._set_init_pose: every arm joint gets its initial position, then mj_forward
set_init_pose(d) ==
    mj_forward([d EXCEPT !.qpos = [j \in Joints |->
        IF \E k \in 1..Len(joint_index) : joint_index[k] = j
        THEN init_pose[CHOOSE k \in 1..Len(joint_index) : joint_index[k] = j]
        ELSE d.qpos[j]]])

\* inner_step of the controller: the action becomes the arm's actuator targets
inner_step(d, action) ==
    [d EXCEPT !.ctrl = [j \in Joints |-> IF j \in ArmJoints THEN action ELSE d.ctrl[j]]]

(* ------------------- PinSolver: the shared workspace ------------------ *)

\* the fields of self.data the solver's methods read their results from
DataFields == {"oMi", "J", "dJ", "M", "C", "g"}

\* a quantity computed at configuration q and velocity v (v = 0 where unused)
Val(f, q, v) == [f |-> f, q |-> q, v |-> v]

\* self.data as model.createData() makes it: nothing computed yet
BlankData == [f \in DataFields |-> Val(f, -1, -1)]

\* no call yet
NoResult == [op |-> "none", q |-> 0, v |-> 0, ref |-> "copy", val |-> Val("none", -1, -1)]

(* ------------------------- construction ------------------------------- *)

\* mj_model.opt.timestep, as the scene description sets it
TimestepChoices == {Rat(-1, 2000), Rat(0, 1), Rat(1, 2000), Rat(1, 100)}

\* control_freq, as the caller passes it
FreqChoices == {-10, 0, 10, 200, 4000}

\* actions of a step call
Actions == {-1, 0, 1}

NoCall == [op |-> "none", paused |-> FALSE, idle |-> FALSE, inner |-> 0,
           advances |-> 0, resets |-> 0, raised |-> FALSE, dcur |-> 0, dstep |-> 0]

\* _initialize_time without the check of the control frequency
initialize_time_nofreq(freq, mt) ==
    IF RatLeq(mt, RatZero)
    THEN [raised |-> TRUE, model_timestep |-> mt, control_timestep |-> RatZero]
    ELSE [raised |-> FALSE, model_timestep |-> mt,
          control_timestep |-> IF freq = 0 THEN RatZero ELSE RatInv(freq)]

\* _initialize_time with the timestep check written < instead of <=
initialize_time_strict(freq, mt) ==
    IF RatLess(mt, RatZero)
    THEN [raised |-> TRUE, model_timestep |-> mt, control_timestep |-> RatZero]
    ELSE IF freq <= 0
    THEN [raised |-> TRUE, model_timestep |-> mt, control_timestep |-> RatZero]
    ELSE [raised |-> FALSE, model_timestep |-> mt, control_timestep |-> RatInv(freq)]

\* MujocoEnv._initialize_time: the clock after it, and whether it raised
initialize_time(freq, mt) ==
    IF RatLeq(mt, RatZero)
    THEN [raised |-> TRUE, model_timestep |-> mt, control_timestep |-> RatZero]
    ELSE IF freq <= 0
    THEN [raised |-> TRUE, model_timestep |-> mt, control_timestep |-> RatZero]
    ELSE [raised |-> FALSE, model_timestep |-> mt, control_timestep |-> RatInv(freq)]

Init ==
    /\ env = "none"
    /\ control_freq = 0
    /\ opt_timestep = RatZero
    /\ cur_time = 0
    /\ timestep = 0
    /\ model_timestep = RatZero
    /\ control_timestep = RatZero
    /\ mj_data = FreshData
    /\ was_reset = FALSE
    /\ executed = 0
    /\ last = NoCall
    /\ reset_snap = <<>>
    /\ ik_pc = "idle"
    /\ ik_target = 0
    /\ ik_qinit = 0
    /\ ik_q = 0
    /\ ik_i = 0
    /\ ik_updates = 0
    /\ ik_passes = 0
    /\ ik_ret = [kind |-> "none", q |-> 0]
    /\ ik_exit = "none"
    /\ s_ready = FALSE
    /\ s_shares = FALSE
    /\ s_data = BlankData
    /\ s_last = NoResult
    /\ s_held = NoResult
    /\ p_op = "none"
    /\ p_pc = 1
    /\ p_k = 1
    /\ p_data = FreshData
    /\ p_cur_time = 0
    /\ p_calls = 0
    /\ p_written = 0
    /\ p_forwarded = FALSE
    /\ p_advanced = 0
    /\ p_mark = [time |-> 0, cur |-> 0]
    /\ e_mode = "none"
    /\ e_last = "none"
    /\ e_timestep = 0
    /\ e_k = 0
    /\ e_truncated = FALSE
    /\ e_terminated = FALSE

\* MujocoEnv.__init__
Construct(freq, mt) ==
    LET t == initialize_time(freq, mt)
    IN  /\ env = "none"
        /\ control_freq' = freq
        /\ opt_timestep' = mt
        /\ cur_time' = 0
        /\ timestep' = 0
        /\ model_timestep' = t.model_timestep
        /\ control_timestep' = t.control_timestep
        /\ env' = IF t.raised THEN "error" ELSE "ok"
        /\ mj_data' = IF t.raised THEN mj_data ELSE set_init_pose(mj_data)
        /\ executed' = 0
        /\ last' = [NoCall EXCEPT !.op = "init", !.raised = t.raised]
        /\ UNCHANGED <<was_reset, reset_snap>>
        /\ UNCHANGED <<ikVars, restVars>>

\* what a step call did, read off the state before and after it: the micro-steps
\* are the growth of the physics time, the clock's growth that of the two counters
StepRecord(paused, inner, resets) ==
    [NoCall EXCEPT !.op = "step", !.paused = paused, !.idle = ~was_reset,
                   !.inner = inner, !.resets = resets,
                   !.advances = mj_data'.time - mj_data.time,
                   !.dcur = cur_time' - cur_time,
                   !.dstep = timestep' - timestep]

\* round(a / b) for b > 0, halves to the even neighbour
Round(a, b) ==
    LET q == a \div b
        r == a % b
    IN  IF 2 * r < b THEN q
        ELSE IF 2 * r > b THEN q + 1
        ELSE IF q % 2 = 0 THEN q ELSE q + 1

\* round(control_timestep / model_timestep) of a constructed environment
MicroStepsPerTick ==
    Round(control_timestep.n * model_timestep.d, control_timestep.d * model_timestep.n)

\* n micro-steps of the integrator
RECURSIVE mj_step_n(_, _)
mj_step_n(d, n) == IF n <= 0 THEN d ELSE mj_step_n(mj_step(d), n - 1)

\* a step that advances the physics once per model timestep of the control step
Step_ratio(action, render_paused) ==
    /\ env = "ok"
    /\ executed < MaxCalls
    /\ UNCHANGED <<env, control_freq, opt_timestep, timestep, model_timestep,
                   control_timestep, was_reset, reset_snap>>
    /\ IF render_paused
       THEN /\ cur_time' = cur_time + MicroStepsPerTick
            /\ mj_data' = mj_step_n(mj_forward(inner_step(mj_data, action)), MicroStepsPerTick)
            /\ executed' = executed + MicroStepsPerTick
            /\ last' = StepRecord(TRUE, 1, 0)
       ELSE /\ UNCHANGED <<cur_time, mj_data, executed>>
            /\ last' = StepRecord(FALSE, 0, 0)
    /\ UNCHANGED <<ikVars, restVars>>

\* a step that ignores the renderer's flag
Step_always(action, render_paused) ==
    /\ env = "ok"
    /\ executed < MaxCalls
    /\ UNCHANGED <<env, control_freq, opt_timestep, timestep, model_timestep,
                   control_timestep, was_reset, reset_snap>>
    /\ cur_time' = cur_time + 1
    /\ mj_data' = mj_step(mj_forward(inner_step(mj_data, action)))
    /\ executed' = executed + 1
    /\ last' = StepRecord(render_paused, 1, 0)
    /\ UNCHANGED <<ikVars, restVars>>

\* a step that resets the environment on the caller's behalf when none was done
Step_autoreset(action, render_paused) ==
    /\ env = "ok"
    /\ executed < MaxCalls - 1
    /\ UNCHANGED <<env, control_freq, opt_timestep, timestep, model_timestep,
                   control_timestep, reset_snap>>
    /\ LET d == IF was_reset THEN mj_data ELSE mj_step(set_init_pose(mj_resetData(mj_data)))
           k == IF was_reset THEN 0 ELSE 1
       IN  IF render_paused
           THEN /\ cur_time' = cur_time + 1
                /\ mj_data' = mj_step(mj_forward(inner_step(d, action)))
                /\ executed' = executed + k + 1
                /\ last' = StepRecord(TRUE, 1, k)
           ELSE /\ cur_time' = cur_time
                /\ mj_data' = d
                /\ executed' = executed + k
                /\ last' = StepRecord(FALSE, 0, k)
    /\ was_reset' = TRUE
    /\ UNCHANGED <<ikVars, restVars>>

\* MujocoEnv.step, with the renderer's render_paused flag as it is read at the call
Step(action, render_paused) ==
    /\ env = "ok"
    /\ executed < MaxCalls
    /\ UNCHANGED <<env, control_freq, opt_timestep, timestep, model_timestep,
                   control_timestep, was_reset, reset_snap>>
    /\ IF render_paused
       THEN /\ cur_time' = cur_time + 1
            /\ mj_data' = mj_step(mj_forward(inner_step(mj_data, action)))
            /\ executed' = executed + 1
            /\ last' = StepRecord(TRUE, 1, 0)
       ELSE /\ UNCHANGED <<cur_time, mj_data, executed>>
            /\ last' = StepRecord(FALSE, 0, 0)
    /\ UNCHANGED <<ikVars, restVars>>

\* MujocoEnv.reset: the robot rebuilds its model (construct_mjcf_data), the data
\* object of the environment stays the same one and is cleared by mj_resetData
Reset ==
    /\ env = "ok"
    /\ executed < MaxCalls
    /\ mj_data' = mj_step(set_init_pose(mj_resetData(mj_data)))
    /\ executed' = executed + 1
    /\ was_reset' = TRUE
    /\ reset_snap' = IF last.op = "reset" THEN <<mj_data>> ELSE <<>>
    /\ last' = [NoCall EXCEPT !.op = "reset", !.advances = 1, !.resets = 1]
    /\ UNCHANGED <<env, control_freq, opt_timestep, cur_time, timestep,
                   model_timestep, control_timestep>>
    /\ UNCHANGED <<ikVars, restVars>>

Next ==
    \/ \E freq \in FreqChoices, mt \in TimestepChoices : Construct(freq, mt)
    \/ \E action \in Actions, render_paused \in BOOLEAN : Step(action, render_paused)
    \/ Reset

Spec == Init /\ [][Next]_vars

(* ---------------------- PinSolver.ik (closed-loop IK) ----------------- *)

\* the convergence tolerance, the unit in which the pose error is measured
eps == 1

\* the iteration cap
IT_MAX == 1000

\* joint configurations of the one-joint chain
IkConfigs == 0..IkMaxQ

\* target poses; the pose IkMaxQ + 1 lies outside the chain's reach
IkTargets == 0..(IkMaxQ + 1)

\* forward kinematics of the chain: the end's pose at configuration q
fk(q) == q

\* norm of the pose error log(oMi^-1 * oM_des), in units of eps
ErrNorm(q, target) == IF fk(q) >= target THEN fk(q) - target ELSE target - fk(q)

\* the tolerance test of the loop
Converged(q, target) == ErrNorm(q, target) < eps

\* a cap test that lets one more pass through
CapReached_late(i) == i > IT_MAX

\* the cap test of the loop
CapReached(i) == i >= IT_MAX

\* the configurations one damped least-squares step scaled by DT can lead to:
\* the iterate stays in its cell or moves one cell towards the target, within reach
IkUpdate(q, target) ==
    {q} \cup {q2 \in IkConfigs : (q < target /\ q2 = q + 1) \/ (q > target /\ q2 = q - 1)}

\* a return value that hands back the start configuration
IkResult_init(q) == [kind |-> "return", q |-> ik_qinit]

\* what the call hands back: q.flatten(), an ordinary return value
IkResult(q) == [kind |-> "return", q |-> q]

\* PinSolver.ik is entered
IkCall(target, q_init) ==
    /\ ik_pc \in {"idle", "done"}
    /\ ik_pc' = "loop"
    /\ ik_target' = target
    /\ ik_qinit' = q_init
    /\ ik_q' = q_init
    /\ ik_i' = 0
    /\ ik_updates' = 0
    /\ ik_passes' = 0
    /\ ik_ret' = [kind |-> "none", q |-> 0]
    /\ ik_exit' = "none"
    /\ UNCHANGED <<envVars, restVars>>

\* a pass of the loop that tests the cap before the tolerance
IkPass_capfirst ==
    /\ ik_pc = "loop"
    /\ ik_passes' = ik_passes + 1
    /\ IF CapReached(ik_i)
       THEN /\ ik_pc' = "ret"
            /\ ik_exit' = "cap"
            /\ UNCHANGED <<ik_q, ik_i, ik_updates>>
       ELSE IF Converged(ik_q, ik_target)
       THEN /\ ik_pc' = "ret"
            /\ ik_exit' = "tol"
            /\ UNCHANGED <<ik_q, ik_i, ik_updates>>
       ELSE /\ \E q2 \in IkUpdate(ik_q, ik_target) : ik_q' = q2
            /\ ik_i' = ik_i + 1
            /\ ik_updates' = ik_updates + 1
            /\ ik_pc' = "loop"
            /\ UNCHANGED ik_exit
    /\ UNCHANGED <<ik_target, ik_qinit, ik_ret>>
    /\ UNCHANGED <<envVars, restVars>>

\* one pass of the while loop
IkPass ==
    /\ ik_pc = "loop"
    /\ ik_passes' = ik_passes + 1
    /\ IF Converged(ik_q, ik_target)
       THEN /\ ik_pc' = "ret"
            /\ ik_exit' = "tol"
            /\ UNCHANGED <<ik_q, ik_i, ik_updates>>
       ELSE IF CapReached(ik_i)
       THEN /\ ik_pc' = "ret"
            /\ ik_exit' = "cap"
            /\ UNCHANGED <<ik_q, ik_i, ik_updates>>
       ELSE /\ \E q2 \in IkUpdate(ik_q, ik_target) : ik_q' = q2
            /\ ik_i' = ik_i + 1
            /\ ik_updates' = ik_updates + 1
            /\ ik_pc' = "loop"
            /\ UNCHANGED ik_exit
    /\ UNCHANGED <<ik_target, ik_qinit, ik_ret>>
    /\ UNCHANGED <<envVars, restVars>>

\* the return after the loop
IkReturn ==
    /\ ik_pc = "ret"
    /\ ik_ret' = IkResult(ik_q)
    /\ ik_pc' = "done"
    /\ UNCHANGED <<ik_target, ik_qinit, ik_q, ik_i, ik_updates, ik_passes, ik_exit>>
    /\ UNCHANGED <<envVars, restVars>>

NextIK ==
    \/ \E target \in IkTargets, q_init \in IkConfigs : IkCall(target, q_init)
    \/ IkPass
    \/ IkReturn

SpecIK == Init /\ [][NextIK]_vars

(* ------------------- PinSolver: kinematics and dynamics --------------- *)

\* joint configurations and velocities handed to the solver
SolverConfigs == {0, 1}

SolverVels == {0, 1}

\* the methods of PinSolver besides ik
SolverOps == {"fk", "get_jac", "get_jac_pinv", "get_jac_dot", "get_inertia_mat",
              "get_coriolis_mat", "get_gravity_mat"}

\* the methods that take a velocity
TakesVel(op) == op \in {"get_jac_dot", "get_coriolis_mat"}

\* pin.forwardKinematics: the joint placements oMi
forwardKinematics(d, q) == [d EXCEPT !["oMi"] = Val("oMi", q, 0)]

\* pin.computeJointJacobians: placements and the Jacobian J
computeJointJacobians(d, q) == [forwardKinematics(d, q) EXCEPT !["J"] = Val("J", q, 0)]

\* pin.computeAllTerms: placements, Jacobian and its derivative, inertia, gravity
computeAllTerms(d, q, v) ==
    [computeJointJacobians(d, q) EXCEPT !["dJ"] = Val("dJ", q, v),
                                        !["M"] = Val("M", q, 0),
                                        !["g"] = Val("g", q, 0)]

\* self.data after a call of the method
DataAfter(op, d, q, v) ==
    CASE op = "fk" -> forwardKinematics(d, q)
      [] op = "get_jac" -> computeJointJacobians(d, q)
      [] op = "get_jac_pinv" -> computeJointJacobians(d, q)
      [] op = "get_jac_dot" -> computeAllTerms(forwardKinematics(d, q), q, v)
      [] op = "get_inertia_mat" -> [d EXCEPT !["M"] = Val("M", q, 0)]
      [] op = "get_coriolis_mat" -> [d EXCEPT !["C"] = Val("C", q, v)]
      [] op = "get_gravity_mat" -> [d EXCEPT !["g"] = Val("g", q, 0)]

\* the field of self.data the method returns, "copy" for a fresh array
ReturnedField(op) ==
    CASE op = "fk" -> "oMi"
      [] op = "get_jac" -> "J"
      [] op = "get_jac_pinv" -> "copy"
      [] op = "get_jac_dot" -> "dJ"
      [] op = "get_inertia_mat" -> "M"
      [] op = "get_coriolis_mat" -> "C"
      [] op = "get_gravity_mat" -> "g"

\* the value the method returns, read from self.data after its library call
Returned(op, d, q) ==
    IF op = "get_jac_pinv" THEN Val("pinv", d["J"].q, 0) ELSE d[ReturnedField(op)]

\* PinSolver.__init__: the model is loaded and its data created
PinInit(shares) ==
    /\ ~s_ready
    /\ s_ready' = TRUE
    /\ s_shares' = shares
    /\ s_data' = BlankData
    /\ UNCHANGED <<s_last, s_held>>
    /\ UNCHANGED <<envVars, ikVars, poseVars, episodeVars>>

\* a call of one of the methods; the caller may keep what it returns
SolverCall(op, q, v, keep) ==
    /\ s_ready
    /\ TakesVel(op) \/ v = 0
    /\ LET d == DataAfter(op, s_data, q, v)
           r == [op |-> op, q |-> q, v |-> v, ref |-> ReturnedField(op),
                 val |-> Returned(op, d, q)]
       IN  /\ s_data' = d
           /\ s_last' = r
           /\ s_held' = IF keep THEN r ELSE s_held
    /\ UNCHANGED <<s_ready, s_shares>>
    /\ UNCHANGED <<envVars, ikVars, poseVars, episodeVars>>

\* a call of ik as the other methods see it: its loop leaves the placements of its
\* final iterate qf and the Jacobian of an iterate qj in self.data, and returns a
\* fresh array (q.flatten())
SolverIk(qf, qj, keep) ==
    /\ s_ready
    /\ LET d == [forwardKinematics(s_data, qf) EXCEPT !["J"] = Val("J", qj, 0)]
           r == [op |-> "ik", q |-> qf, v |-> 0, ref |-> "copy", val |-> Val("q", qf, 0)]
       IN  /\ s_data' = d
           /\ s_last' = r
           /\ s_held' = IF keep THEN r ELSE s_held
    /\ UNCHANGED <<s_ready, s_shares>>
    /\ UNCHANGED <<envVars, ikVars, poseVars, episodeVars>>

NextSolver ==
    \/ \E shares \in BOOLEAN : PinInit(shares)
    \/ \E op \in SolverOps, q \in SolverConfigs, v \in SolverVels, keep \in BOOLEAN :
           SolverCall(op, q, v, keep)
    \/ \E qf \in SolverConfigs, qj \in SolverConfigs, keep \in BOOLEAN : SolverIk(qf, qj, keep)

SpecSolver == Init /\ [][NextSolver]_vars

(* ------------- __init__ and reset, statement by statement ------------- *)

\* the statements of __init__ that touch the clock and the physics state
InitProgram == <<"initialize_time", "write", "forward">>

\* a reset that advances the physics before it re-applies the pose
ResetProgram_stepfirst == <<"resetData", "step", "write", "forward">>

\* the statements of reset after the robot rebuilt its model
ResetProgram == <<"resetData", "write", "forward", "step">>

Program(op) == IF op = "init" THEN InitProgram ELSE ResetProgram

\* the statement the call in progress runs next, "idle" between calls
Cur ==
    IF p_op = "none" \/ p_pc > Len(Program(p_op)) THEN "idle" ELSE Program(p_op)[p_pc]

\* the end of the loop over the arm's joints
LoopEnd == Len(joint_index)

\* mj_data.joint(joint_index[j]).qpos = init_pose[j]
WriteJoint(d, k) == [d EXCEPT !.qpos[joint_index[k]] = init_pose[k], !.fwd = FALSE]

\* __init__ is entered
PBeginInit ==
    /\ p_op = "none"
    /\ p_op' = "init"
    /\ p_pc' = 1
    /\ p_k' = 1
    /\ p_written' = 0
    /\ p_forwarded' = FALSE
    /\ p_advanced' = 0
    /\ UNCHANGED <<p_data, p_cur_time, p_calls, p_mark>>
    /\ UNCHANGED <<envVars, ikVars, solverVars, episodeVars>>

\* reset is entered
PBeginReset ==
    /\ p_op /= "none"
    /\ Cur = "idle"
    /\ p_calls < MaxCalls
    /\ p_op' = "reset"
    /\ p_pc' = 1
    /\ p_k' = 1
    /\ p_calls' = p_calls + 1
    /\ p_written' = 0
    /\ p_forwarded' = FALSE
    /\ p_advanced' = 0
    /\ UNCHANGED <<p_data, p_cur_time, p_mark>>
    /\ UNCHANGED <<envVars, ikVars, solverVars, episodeVars>>

\* self._initialize_time() of __init__
PInitializeTime ==
    /\ Cur = "initialize_time"
    /\ p_cur_time' = 0
    /\ p_pc' = p_pc + 1
    /\ UNCHANGED <<p_op, p_k, p_data, p_calls, p_written, p_forwarded, p_advanced, p_mark>>
    /\ UNCHANGED <<envVars, ikVars, solverVars, episodeVars>>

\* mujoco.mj_resetData of reset
PResetData ==
    /\ Cur = "resetData"
    /\ p_data' = mj_resetData(p_data)
    /\ p_pc' = p_pc + 1
    /\ UNCHANGED <<p_op, p_k, p_cur_time, p_calls, p_written, p_forwarded, p_advanced,
                   p_mark>>
    /\ UNCHANGED <<envVars, ikVars, solverVars, episodeVars>>

\* one turn of the loop of _set_init_pose, or its end
PWrite ==
    /\ Cur = "write"
    /\ IF p_k <= LoopEnd
       THEN /\ p_data' = WriteJoint(p_data, p_k)
            /\ p_k' = p_k + 1
            /\ p_written' = p_written + 1
            /\ p_mark' = IF p_written = 0
                         THEN [time |-> p_data.time, cur |-> p_cur_time] ELSE p_mark
            /\ UNCHANGED p_pc
       ELSE /\ p_pc' = p_pc + 1
            /\ UNCHANGED <<p_data, p_k, p_written, p_mark>>
    /\ UNCHANGED <<p_op, p_cur_time, p_calls, p_forwarded, p_advanced>>
    /\ UNCHANGED <<envVars, ikVars, solverVars, episodeVars>>

\* mujoco.mj_forward at the end of _set_init_pose
PForward ==
    /\ Cur = "forward"
    /\ p_data' = mj_forward(p_data)
    /\ p_forwarded' = TRUE
    /\ p_pc' = p_pc + 1
    /\ UNCHANGED <<p_op, p_k, p_cur_time, p_calls, p_written, p_advanced, p_mark>>
    /\ UNCHANGED <<envVars, ikVars, solverVars, episodeVars>>

\* mujoco.mj_step of reset
PMjStep ==
    /\ Cur = "step"
    /\ p_data' = mj_step(p_data)
    /\ p_advanced' = p_advanced + 1
    /\ p_pc' = p_pc + 1
    /\ UNCHANGED <<p_op, p_k, p_cur_time, p_calls, p_written, p_forwarded, p_mark>>
    /\ UNCHANGED <<envVars, ikVars, solverVars, episodeVars>>

\* a call of step between two of these calls, with render_paused true
PStep(action) ==
    /\ p_op /= "none"
    /\ Cur = "idle"
    /\ p_calls < MaxCalls
    /\ p_calls' = p_calls + 1
    /\ p_cur_time' = p_cur_time + 1
    /\ p_data' = mj_step(mj_forward(inner_step(p_data, action)))
    /\ UNCHANGED <<p_op, p_pc, p_k, p_written, p_forwarded, p_advanced, p_mark>>
    /\ UNCHANGED <<envVars, ikVars, solverVars, episodeVars>>

NextPose ==
    \/ PBeginInit
    \/ PBeginReset
    \/ PInitializeTime
    \/ PResetData
    \/ PWrite
    \/ PForward
    \/ PMjStep
    \/ \E action \in Actions : PStep(action)

SpecPose == Init /\ [][NextPose]_vars

(* ------------------ PickAndPlaceEnv: episode bookkeeping -------------- *)

\* self.max_episode_steps
max_episode_steps == 50

\* a truncation test that lets one more step through
Truncated_late(t) == t > max_episode_steps

\* the truncation test of step
Truncated(t) == t >= max_episode_steps

\* PickAndPlaceEnv.__init__; mode says who drives the environment afterwards
EConstruct(mode) ==
    /\ e_mode = "none"
    /\ e_mode' = mode
    /\ e_last' = "init"
    /\ e_timestep' = 0
    /\ e_k' = 0
    /\ UNCHANGED <<e_truncated, e_terminated>>
    /\ UNCHANGED <<envVars, ikVars, solverVars, poseVars>>

\* PickAndPlaceEnv.step; the __main__ loop calls it after its first reset and
\* after every step that did not return truncated
EStep ==
    /\ e_mode /= "none"
    /\ IF e_mode = "demo"
       THEN e_last = "reset" \/ (e_last = "step" /\ ~e_truncated)
       ELSE e_timestep < max_episode_steps + EpisodeOverrun
    /\ e_timestep' = e_timestep + 1
    /\ e_k' = e_k + 1
    /\ e_terminated' = FALSE
    /\ e_truncated' = Truncated(e_timestep')
    /\ e_last' = "step"
    /\ UNCHANGED e_mode
    /\ UNCHANGED <<envVars, ikVars, solverVars, poseVars>>

\* PickAndPlaceEnv.reset; the __main__ loop calls it once after construction and
\* whenever a step returned truncated
EReset ==
    /\ e_mode /= "none"
    /\ e_mode = "demo" => (e_last = "init" \/ (e_last = "step" /\ e_truncated))
    /\ e_timestep' = 0
    /\ e_k' = 0
    /\ e_last' = "reset"
    /\ UNCHANGED <<e_mode, e_truncated, e_terminated>>
    /\ UNCHANGED <<envVars, ikVars, solverVars, poseVars>>

NextEpisode ==
    \/ \E mode \in {"demo", "free"} : EConstruct(mode)
    \/ EStep
    \/ EReset

SpecEpisode == Init /\ [][NextEpisode]_vars

(* ------------------------- claims: the control loop ------------------- *)

\* control_timestep / model_timestep < 1, for the values a construction was given
RatioBelowOne(freq, mt) ==
    /\ freq /= 0
    /\ mt.n /= 0
    /\ IF freq * mt.n > 0 THEN mt.d < freq * mt.n ELSE TRUE

\* the arm's joint state: position and velocity of every joint of joint_index
ArmState(d) == [k \in 1..Len(joint_index) |-> <<d.qpos[joint_index[k]], d.qvel[joint_index[k]]>>]

\* C1 as claimed: every step call advances the physics by exactly
\* round(control_timestep / model_timestep) micro-steps.
C1_StepAdvancesRatioMicroSteps ==
    last.op = "step" => last.advances = MicroStepsPerTick

\* C1 as amended: a step call advances the physics by exactly one micro-step when
\* render_paused is true and by none when it is false, whatever
\* control_timestep / model_timestep is; the physics time grows with it.
C1_StepAdvancesOneMicroStep ==
    /\ last.op = "step" => last.advances = (IF last.paused THEN 1 ELSE 0)
    /\ (last.op = "step" /\ ~was_reset) => mj_data.time = cur_time

\* a step call of the 0.005 s / 0.0005 s configuration that took one micro-step
C1_Witness ==
    /\ last.op = "step"
    /\ last.paused
    /\ last.advances = 1
    /\ model_timestep = Rat(1, 2000)
    /\ control_timestep = Rat(1, 200)
    /\ MicroStepsPerTick = 10

\* C2 as claimed: every step call delegates to inner_step and advances the physics
\* exactly once, whatever the renderer's state.
C2_StepAdvancesOnceAlways ==
    last.op = "step" => (last.inner = 1 /\ last.advances = 1)

\* C2 as amended: a step call advances the physics at most once; it delegates to
\* inner_step once and advances once exactly when render_paused is true, and does
\* nothing at all when it is false.
C2_StepAdvancesOnceIfPaused ==
    last.op = "step" =>
        /\ last.advances <= 1
        /\ last.inner = last.advances
        /\ (last.advances = 1) <=> last.paused
        /\ last.dcur = last.advances

\* a step call that was a no-op because render_paused was false
C2_Witness ==
    last.op = "step" /\ ~last.paused /\ last.advances = 0 /\ executed > 0

\* C3: each step increments both clock counters, cur_time and timestep, by the
\* number of micro-steps it took.
C3_StepCountsBothCounters ==
    last.op = "step" => (last.dcur = last.advances /\ last.dstep = last.advances)

\* C4: right after a reset the clock is zero (up to the one settle advance of the
\* reset itself), and the two timesteps are what construction made them.
C4_ResetZeroesClock ==
    last.op = "reset" =>
        /\ cur_time <= 1
        /\ timestep <= 1
        /\ model_timestep = opt_timestep
        /\ control_timestep = RatInv(control_freq)

\* C5: a reset that directly follows a reset leaves every arm joint with the
\* position and velocity the first reset left it with.
C5_ResetIdempotent ==
    (last.op = "reset" /\ reset_snap /= <<>>) => ArmState(mj_data) = ArmState(reset_snap[1])

\* two resets in a row, after a step that set the arm in motion
C5_Witness ==
    /\ last.op = "reset"
    /\ reset_snap /= <<>>
    /\ cur_time > 0
    /\ ArmState(mj_data) = ArmState(reset_snap[1])

\* C6 as claimed: a step call before the first reset raises an error and neither
\* advances the physics nor the clock, nor resets.
C6_IdleStepRaises ==
    (last.op = "step" /\ last.idle) =>
        (last.raised /\ last.advances = 0 /\ last.dcur = 0 /\ last.resets = 0)

\* C6 as amended: a step call before the first reset raises nothing and does what
\* any step call does: with render_paused true it advances the physics by one
\* micro-step and cur_time by one, with render_paused false it does nothing; it
\* never resets on the caller's behalf.
C6_IdleStepRuns ==
    (last.op = "step" /\ last.idle) =>
        /\ ~last.raised
        /\ last.resets = 0
        /\ ~was_reset
        /\ last.advances = (IF last.paused THEN 1 ELSE 0)
        /\ last.dcur = last.advances

\* a step call before any reset that advanced the physics
C6_Witness ==
    last.op = "step" /\ last.idle /\ last.advances = 1 /\ cur_time = 1 /\ ~was_reset

\* C7 as claimed: construction fails when control_timestep / model_timestep < 1,
\* so a constructed environment has control_timestep >= model_timestep.
C7_RatioAtLeastOne ==
    /\ (env /= "none" /\ RatioBelowOne(control_freq, opt_timestep)) => env = "error"
    /\ env = "ok" => RatLeq(model_timestep, control_timestep)

\* C7 as amended: the ratio is not checked. A construction whose ratio is below 1
\* fails exactly when the model timestep or the control frequency is not positive;
\* with both positive it succeeds and control_timestep < model_timestep holds.
C7_RatioNotChecked ==
    (env /= "none" /\ RatioBelowOne(control_freq, opt_timestep)) =>
        /\ (env = "error") <=> (RatLeq(opt_timestep, RatZero) \/ control_freq <= 0)
        /\ env = "ok" => RatLess(control_timestep, model_timestep)

\* a constructed environment whose control step is shorter than the physics step
C7_Witness ==
    env = "ok" /\ RatLess(control_timestep, model_timestep)

\* C8: construction fails when the model timestep or the control frequency is not
\* positive; a constructed environment has model_timestep > 0 and
\* control_timestep = 1 / control_freq > 0.
C8_PositiveTimesteps ==
    /\ (env /= "none" /\ (RatLeq(opt_timestep, RatZero) \/ control_freq <= 0)) =>
           (env = "error" /\ last.raised)
    /\ env = "ok" =>
           /\ RatLess(RatZero, model_timestep)
           /\ model_timestep = opt_timestep
           /\ control_freq > 0
           /\ RatEq(control_timestep, Rat(1, control_freq))
           /\ RatLess(RatZero, control_timestep)

\* a construction that failed on the control frequency alone
C8_Witness ==
    env = "error" /\ control_freq <= 0 /\ RatLess(RatZero, opt_timestep) /\ last.raised

(* ------------------------- claims: the solver ------------------------- *)

\* C9: a call of ik performs at most IT_MAX update iterations and at most
\* IT_MAX + 1 passes of its loop, for every target and every q_init; while the
\* loop runs, the passes made equal the counter i, which the cap test bounds.
C9_IkIterationsCapped ==
    /\ ik_updates <= IT_MAX
    /\ ik_passes <= IT_MAX + 1
    /\ ik_pc = "loop" => (ik_passes = ik_i /\ ik_i <= IT_MAX)
    /\ ik_pc \in {"ret", "done"} => ik_updates = ik_i

\* a call on an unreachable target that ended after exactly IT_MAX updates
C9_Witness ==
    /\ ik_pc = "done"
    /\ ik_target = IkMaxQ + 1
    /\ ik_updates = IT_MAX
    /\ ik_passes = IT_MAX + 1

\* C10 as claimed: a call that ends at the cap without meeting the tolerance ends
\* with a ConvergenceError that carries the final q.
C10_CapRaisesConvergenceError ==
    (ik_pc = "done" /\ ~Converged(ik_q, ik_target)) =>
        (ik_ret.kind = "ConvergenceError" /\ ik_ret.q = ik_q)

\* C10 as amended: a call that ends without meeting the tolerance has made exactly
\* IT_MAX updates and returns its final q as an ordinary return value, of the same
\* kind as the return value of a converged call; no error is raised.
C10_CapReturnsFinalQ ==
    ik_pc = "done" =>
        /\ ik_ret.kind = "return"
        /\ ik_ret.q = ik_q
        /\ ~Converged(ik_q, ik_target) => (ik_i = IT_MAX /\ ik_updates = IT_MAX)

\* a call that hit the cap away from its start configuration and returned
C10_Witness ==
    /\ ik_pc = "done"
    /\ ~Converged(ik_q, ik_target)
    /\ ik_i = IT_MAX
    /\ ik_q /= ik_qinit
    /\ ik_ret = [kind |-> "return", q |-> ik_q]

\* what a method's result is as a function of its arguments alone
PureResult(op, q, v) ==
    IF op = "get_jac_pinv" THEN Val("pinv", q, 0) ELSE Val(ReturnedField(op), q, v)

\* what the caller reads now in the result it kept
HeldNow == IF s_shares /\ s_held.ref /= "copy" THEN s_data[s_held.ref] ELSE s_held.val

\* C11: every solver method is a pure function of its arguments: what it returns
\* depends on them alone, and a result an earlier call returned to the caller is
\* not changed by a later call.
C11_SolverPure ==
    /\ s_last.op \in SolverOps => s_last.val = PureResult(s_last.op, s_last.q, s_last.v)
    /\ s_held.op /= "none" => HeldNow = s_held.val

\* every arm joint holds its initial position
ArmAtInitPose(d) == \A k \in 1..Len(joint_index) : d.qpos[joint_index[k]] = init_pose[k]

\* C12: in __init__ and in reset every arm joint is overwritten with its initial
\* position (and in reset every velocity is cleared) before mj_forward runs, and
\* mj_forward runs before any mj_step; between the first joint write and mj_forward
\* neither the physics time nor cur_time changes.
C12_PoseAppliedInOrder ==
    /\ (Cur = "forward" \/ p_forwarded) => p_written = Len(joint_index)
    /\ Cur = "forward" =>
           /\ ArmAtInitPose(p_data)
           /\ p_op = "reset" => \A j \in Joints : p_data.qvel[j] = 0
    /\ p_advanced > 0 => p_forwarded
    /\ Cur = "step" => (p_data.fwd /\ ArmAtInitPose(p_data))
    /\ (p_written > 0 /\ Cur \in {"write", "forward"}) =>
           (p_data.time = p_mark.time /\ p_cur_time = p_mark.cur /\ p_advanced = 0)
    /\ p_op = "init" => p_advanced = 0

\* a reset, after a step moved the arm, that has written every joint and is about
\* to run mj_forward
C12_Witness ==
    /\ p_op = "reset"
    /\ Cur = "forward"
    /\ p_written = Len(joint_index)
    /\ p_cur_time > 0
    /\ ArmAtInitPose(p_data)

\* C13: ik stops at the first iterate whose error norm is below eps and returns
\* that iterate without a further update; the tolerance is tested before the cap in
\* every pass, so a q_init that meets the tolerance comes back unchanged after zero
\* updates and an iterate that meets it after exactly IT_MAX updates leaves the
\* loop through the tolerance test.
C13_StopsAtFirstConverged ==
    /\ [][(ik_pc = "loop" /\ ErrNorm(ik_q, ik_target) < eps) =>
              (ik_pc' = "ret" /\ ik_q' = ik_q /\ ik_updates' = ik_updates
               /\ ik_exit' = "tol")]_vars
    /\ [](ik_pc = "done" =>
              /\ ik_ret.q = ik_q
              /\ (ik_exit = "tol") <=> (ErrNorm(ik_q, ik_target) < eps)
              /\ ErrNorm(ik_qinit, ik_target) < eps =>
                     (ik_updates = 0 /\ ik_ret.q = ik_qinit))

\* a call whose iterate met the tolerance after exactly IT_MAX updates
C13_Witness ==
    /\ ik_pc = "done"
    /\ ik_updates = IT_MAX
    /\ ik_q /= ik_qinit
    /\ ErrNorm(ik_q, ik_target) < eps
    /\ ik_exit = "tol"
    /\ ik_ret.q = ik_q

\* C14: every step call of PickAndPlaceEnv adds one to _timestep and reset sets it
\* to 0, so the k-th step after the most recent reset (or construction) returns
\* truncated exactly when k >= max_episode_steps, and terminated is always False;
\* under the __main__ loop, which resets whenever truncated is returned, _timestep
\* never exceeds max_episode_steps.
C14_EpisodeBookkeeping ==
    /\ e_timestep = e_k
    /\ e_last = "reset" => e_timestep = 0
    /\ e_last = "step" => (e_truncated <=> e_k >= max_episode_steps)
    /\ ~e_terminated
    /\ e_mode = "demo" => e_timestep <= max_episode_steps

\* the 50th step of an episode of the __main__ loop, which returned truncated
C14_Witness ==
    /\ e_mode = "demo"
    /\ e_last = "step"
    /\ e_k = max_episode_steps
    /\ e_timestep = max_episode_steps
    /\ e_truncated
    /\ ~e_terminated

====
